---- MODULE Spec2Model ----
(***************************************************************************)
(* Optical analysis engine of optiland: src/optiland/analysis.py           *)
(* (SpotDiagram, EncircledEnergy, RayFan, Distortion, GridDistortion,      *)
(* FieldCurvature) and src/optiland/psf.py (FFTPSF).                       *)
(*                                                                         *)
(* Numbers.  A numpy float is modelled exactly, as a fraction <<n, d>> in  *)
(* lowest terms with d > 0, or as one of the three non-finite values       *)
(* <<1, 0>> (+inf), <<-1, 0>> (-inf) and <<0, 0>> (NaN).  Rounding is not  *)
(* modelled; division by zero, NaN propagation and comparisons with NaN    *)
(* follow IEEE-754 as numpy applies it (a warning, never an exception).    *)
(* A square root is carried symbolically: the model keeps the radicand.    *)
(*                                                                         *)
(* Python sequences are 0-based, TLA+ sequences 1-based: a Python index k  *)
(* is the TLA+ index k + 1.                                                *)
(***************************************************************************)
EXTENDS Integers, Sequences, FiniteSets, TLC

VARIABLES
    self,       \* the analyzer instance: a record of its attributes
    optic,      \* the optic: registries and the tracer's last-traced state
    heap,       \* the numpy arrays alive, by reference (index into heap)
    pc,         \* position of the constructor / of the instance's life
    trace_log,  \* the trace calls issued so far, in order
    result      \* what the read operations returned last

vars == <<self, optic, heap, pc, trace_log, result>>

----------------------------------------------------------------------------
(* Bounds of the model *)

\* number of wavelengths registered in the optic
NumWavelengths == 2
\* rays per traced bundle in the spot analyses
NumRays == 2
\* largest num_points of an encircled-energy curve
MaxEEPoints == 3
\* largest num_points given to RayFan
MaxFanPoints == 4
\* largest num_points given to Distortion and GridDistortion
MaxDistPoints == 3
\* largest num_points given to FieldCurvature, besides TileCount
MaxCurvPoints == 2
\* largest num_rays and largest grid_size given to FFTPSF
MaxPupilRays == 4
MaxGridSize == 8
\* number of wavefronts (optical path difference maps) FFTPSF is tried on
NumWavefronts == 4
NumPairs == 2

----------------------------------------------------------------------------
(* Floats *)

Abs(a) == IF a < 0 THEN -a ELSE a

Sign(a) == IF a < 0 THEN -1 ELSE IF a > 0 THEN 1 ELSE 0

RECURSIVE GCD(_, _)
GCD(a, b) == IF b = 0 THEN a ELSE GCD(b, a % b)

\* the float n/d, in lowest terms; n/0 is +inf, -inf or NaN by the sign of n
Norm(n, d) ==
    IF d = 0 THEN <<Sign(n), 0>>
    ELSE LET g == GCD(Abs(n), Abs(d))
         IN  <<(Sign(d) * n) \div g, Abs(d) \div g>>

F(n) == <<n, 1>>
NaN == <<0, 0>>
Inf == <<1, 0>>
NegInf == <<-1, 0>>
Zero == <<0, 1>>

IsNaN(a) == a = NaN
IsFinite(a) == a[2] # 0

FAdd(a, b) ==
    IF IsNaN(a) \/ IsNaN(b) THEN NaN
    ELSE IF ~IsFinite(a) /\ ~IsFinite(b) THEN (IF a = b THEN a ELSE NaN)
    ELSE IF ~IsFinite(a) THEN a
    ELSE IF ~IsFinite(b) THEN b
    ELSE LET g == GCD(a[2], b[2])
         IN  Norm(a[1] * (b[2] \div g) + b[1] * (a[2] \div g), (a[2] \div g) * b[2])

FNeg(a) == <<-a[1], a[2]>>

FSub(a, b) == FAdd(a, FNeg(b))

\* inf * 0 and NaN * x come out as 0/0, which is NaN
FMul(a, b) ==
    IF a[1] = 0 \/ b[1] = 0 \/ a[2] = 0 \/ b[2] = 0 THEN Norm(a[1] * b[1], a[2] * b[2])
    ELSE LET g1 == GCD(Abs(a[1]), b[2])
             g2 == GCD(Abs(b[1]), a[2])
         IN  Norm((a[1] \div g1) * (b[1] \div g2), (a[2] \div g2) * (b[2] \div g1))

\* x / 0 is +-inf for x # 0 and NaN for x = 0 (the zero is unsigned here)
FDiv(a, b) ==
    IF IsNaN(a) \/ IsNaN(b) THEN NaN
    ELSE IF ~IsFinite(b) THEN (IF IsFinite(a) THEN Zero ELSE NaN)
    ELSE IF b[1] = 0 THEN Norm(a[1], 0)
    ELSE IF ~IsFinite(a) THEN Norm(a[1] * Sign(b[1]), 0)
    ELSE FMul(a, Norm(b[2], b[1]))

\* an/ad <= bn/bd for ad, bd > 0, by the integer parts and then the
\* reciprocals of the fractional parts, so that no product is formed
RECURSIVE RatLe(_, _, _, _)
RatLe(an, ad, bn, bd) ==
    IF (an \div ad) # (bn \div bd) THEN (an \div ad) < (bn \div bd)
    ELSE IF an % ad = 0 THEN TRUE
    ELSE IF bn % bd = 0 THEN FALSE
    ELSE RatLe(bd, bn % bd, ad, an % ad)

\* a <= b; every comparison with NaN is False
FLe(a, b) ==
    IF IsNaN(a) \/ IsNaN(b) THEN FALSE
    ELSE IF a = NegInf \/ b = Inf THEN TRUE
    ELSE IF a = Inf \/ b = NegInf THEN FALSE
    ELSE RatLe(a[1], a[2], b[1], b[2])

FSq(a) == FMul(a, a)

RECURSIVE SumFrom(_, _)
SumFrom(s, k) == IF k > Len(s) THEN Zero ELSE FAdd(s[k], SumFrom(s, k + 1))

\* np.sum
FSum(s) == SumFrom(s, 1)

\* np.mean: the sum over the count (0/0 = NaN for an empty array)
mean(s) == FDiv(FSum(s), F(Len(s)))

\* np.max of a non-empty array: NaN if any entry is NaN, else the entry that
\* no other entry exceeds
FMax(s) ==
    IF \E k \in 1..Len(s) : IsNaN(s[k]) THEN NaN
    ELSE s[CHOOSE k \in 1..Len(s) : \A j \in 1..Len(s) : FLe(s[j], s[k])]

\* np.nansum: NaN entries count as zero
FNanSum(s) == FSum([k \in 1..Len(s) |-> IF IsNaN(s[k]) THEN Zero ELSE s[k]])

\* np.linspace(start, stop, num), num >= 1: start + k * step for k = 0..num-1
\* with step = (stop - start) / (num - 1), the last sample set to stop; for
\* num = 1 the one sample is 0 * (stop - start) + start, NaN when stop - start
\* is not finite
linspace(start, stop, num) ==
    [k \in 1..num |->
        IF num = 1 THEN FAdd(FMul(Zero, FSub(stop, start)), start)
        ELSE IF k = num THEN stop
        ELSE FAdd(FMul(F(k - 1), FDiv(FSub(stop, start), F(num - 1))), start)]

\* np.sqrt, symbolic: the value whose square is q (NaN and inf pass through)
Sqrt(q) == [sqrt_of |-> q]

\* np.sqrt(q) <= r for q >= 0: r is not negative and q <= r**2
SqrtLe(q, r) == FLe(Zero, r) /\ FLe(q, FSq(r))

----------------------------------------------------------------------------
(* The optic: registries and the ray tracer (Ray Sampling Adapter) *)

\* optic.fields.get_field_coords(): the configured fields (Hx, Hy)
FieldCoords == <<<<0, 0>>, <<0, 1>>>>

\* optic.wavelengths.get_wavelengths(): the configured wavelengths
Wavelengths == [k \in 1..NumWavelengths |-> k]

\* optic.primary_wavelength
primary_wavelength(o) == o.wavelengths[o.primary_index + 1]

\* every list of length lo..n over the set S
SeqsUpTo(S, lo, n) == UNION {[1..m -> S] : m \in lo..n}

\* every list over the set S that names no element twice
DistinctSeqs(S) ==
    {s \in SeqsUpTo(S, 0, Cardinality(S)) : \A a, b \in 1..Len(s) : s[a] = s[b] => a = b}

\* The image-surface arrays of one traced bundle.  The tracer is a function
\* of the field, the wavelength and the ray number; distinct (field,
\* wavelength) pairs give distinct arrays.
TracedX(field, wavelength, n) == [k \in 1..n |-> F(10 * field[1] + wavelength * k)]
TracedY(field, wavelength, n) == [k \in 1..n |-> F(10 * field[2] + wavelength * k * k)]
TracedEnergy(field, wavelength, n) == [k \in 1..n |-> F(1)]

\* optic.trace(Hx, Hy, wavelength, num_rays, distribution): three fresh
\* arrays hold the bundle; surface_group refers to them until the next trace
trace(h, field, wavelength, n) ==
    [heap |-> h \o <<TracedX(field, wavelength, n),
                     TracedY(field, wavelength, n),
                     TracedEnergy(field, wavelength, n)>>,
     surface_group |-> [x |-> Len(h) + 1, y |-> Len(h) + 2, energy |-> Len(h) + 3]]

----------------------------------------------------------------------------
(* SpotDiagram and EncircledEnergy: construction *)

\* the fields and wavelengths arguments of SpotDiagram.__init__ ('all' or a
\* list) and the wavelength argument of EncircledEnergy.__init__ ('primary'
\* or a wavelength)
ListArg(s) == [tag |-> "list", list |-> s]
FieldArgs ==
    {[tag |-> "all"]}
        \cup {ListArg(s) : s \in DistinctSeqs({FieldCoords[k] : k \in 1..Len(FieldCoords)})}
WavelengthArgs ==
    {[tag |-> "all"]} \cup {ListArg(s) : s \in SeqsUpTo(1..NumWavelengths, 1, NumWavelengths)}
WavelengthArg == {[tag |-> "primary"]} \cup {ListArg(<<w>>) : w \in 1..NumWavelengths}

\* lines 14-18 of SpotDiagram.__init__ and 131-134 of EncircledEnergy.__init__
SpotFields(o, fa) == IF fa.tag = "all" THEN o.fields ELSE fa.list
SpotWavelengths(o, wa) ==
    IF wa.tag = "all" THEN o.wavelengths
    ELSE IF wa.tag = "primary" THEN <<primary_wavelength(o)>>
    ELSE wa.list

NoResult == [tag |-> "none"]
ReadOps == {"centroid", "geometric_spot_radius", "rms_spot_radius"}

\* SpotDiagram.__init__ / EncircledEnergy.__init__ up to the call of
\* _generate_data
SpotInit ==
    \E kind \in {"SpotDiagram", "EncircledEnergy"}, fa \in FieldArgs,
       wa \in WavelengthArgs \cup WavelengthArg, pidx \in 0..(NumWavelengths - 1) :
        /\ kind = "SpotDiagram" => wa \in WavelengthArgs
        /\ kind = "EncircledEnergy" => wa \in WavelengthArg
        /\ optic = [wavelengths |-> Wavelengths, primary_index |-> pidx,
                    fields |-> FieldCoords, surface_group |-> <<>>]
        /\ self = [kind |-> kind,
                   fields |-> SpotFields(optic, fa),
                   wavelengths |-> SpotWavelengths(optic, wa),
                   data |-> <<>>]
        /\ heap = <<>>
        /\ pc = [at |-> "field_loop", i |-> 1, j |-> 1, data |-> <<>>, field_data |-> <<>>]
        /\ trace_log = <<>>
        /\ result = [op \in ReadOps |-> NoResult]

\* _generate_data, line 95: for field in fields
SpotFieldLoop ==
    /\ pc.at = "field_loop"
    /\ IF pc.i <= Len(self.fields)
       THEN /\ pc' = [pc EXCEPT !.at = "wave_loop", !.j = 1, !.field_data = <<>>]
            /\ self' = self
       ELSE /\ pc' = [pc EXCEPT !.at = "ready"]
            /\ self' = [self EXCEPT !.data = pc.data]
    /\ UNCHANGED <<optic, heap, trace_log, result>>

\* _generate_data, line 97: for wavelength in wavelengths
SpotWaveLoop ==
    /\ pc.at = "wave_loop"
    /\ IF pc.j <= Len(self.wavelengths)
       THEN pc' = [pc EXCEPT !.at = "trace"]
       ELSE pc' = [pc EXCEPT !.at = "field_loop", !.i = pc.i + 1,
                             !.data = Append(pc.data, pc.field_data)]
    /\ UNCHANGED <<self, optic, heap, trace_log, result>>

\* (mutant) the inner loop hands on the first wavelength every time
_generate_data_args_stale(flds, wls, i, j) == <<flds[i], wls[1]>>

\* the (field, wavelength) the loop body hands to _generate_field_data
_generate_data_args(flds, wls, i, j) == <<flds[i], wls[j]>>

\* _generate_field_data, line 107: self.optic.trace(*field, wavelength, ...)
SpotTrace ==
    /\ pc.at = "trace"
    /\ LET a == _generate_data_args(self.fields, self.wavelengths, pc.i, pc.j)
           t == trace(heap, a[1], a[2], NumRays)
       IN  /\ heap' = t.heap
           /\ optic' = [optic EXCEPT !.surface_group = t.surface_group]
           /\ trace_log' = Append(trace_log, a)
    /\ pc' = [pc EXCEPT !.at = "read"]
    /\ UNCHANGED <<self, result>>

\* _generate_field_data, lines 108-110 (196-199 for EncircledEnergy): the
\* views of the last-traced state that are returned
_generate_field_data(kind, sg) ==
    IF kind = "EncircledEnergy" THEN <<sg.x, sg.y, sg.energy>> ELSE <<sg.x, sg.y>>

\* the read of the adapter's state and field_data.append(...), line 98
SpotRead ==
    /\ pc.at = "read"
    /\ pc' = [pc EXCEPT !.at = "wave_loop", !.j = pc.j + 1,
                        !.field_data = Append(pc.field_data,
                            _generate_field_data(self.kind, optic.surface_group))]
    /\ UNCHANGED <<self, optic, heap, trace_log, result>>

----------------------------------------------------------------------------
(* SpotDiagram and EncircledEnergy: read operations *)

\* the arrays a nested list of references stands for
Deref(h, d) == [i \in 1..Len(d) |-> [j \in 1..Len(d[i]) |->
                   [c \in 1..Len(d[i][j]) |-> h[d[i][j][c]]]]]

\* (mutant) no copy is taken: the result refers to the stored arrays
deepcopy_alias(h, d) == [heap |-> h, data |-> d]

\* copy.deepcopy of the nested list data: every array it refers to is
\* copied into a fresh array, and the copy refers to the fresh arrays
deepcopy(h, d) ==
    LET W == IF Len(d) = 0 THEN 0 ELSE Len(d[1])
        C == IF W = 0 THEN 0 ELSE Len(d[1][1])
        at(q) == d[(q \div (W * C)) + 1][((q % (W * C)) \div C) + 1][(q % C) + 1]
    IN  [heap |-> [p \in 1..(Len(h) + Len(d) * W * C) |->
                      IF p <= Len(h) THEN h[p] ELSE h[at(p - Len(h) - 1)]],
         data |-> [i \in 1..Len(d) |-> [j \in 1..W |-> [c \in 1..C |->
                      Len(h) + ((i - 1) * W + (j - 1)) * C + c]]]]

\* SpotDiagram.centroid (lines 52-59) and EncircledEnergy.centroid (157-163);
\* field_data[norm_index] raises IndexError past the end of the list
centroid(h, s, o) ==
    LET norm_index == IF s.kind = "EncircledEnergy" THEN 0 ELSE o.primary_index
    IN  IF \E i \in 1..Len(s.data) : norm_index >= Len(s.data[i])
        THEN [tag |-> "IndexError"]
        ELSE [tag |-> "ok",
              value |-> [i \in 1..Len(s.data) |->
                            <<mean(h[s.data[i][norm_index + 1][1]]),
                              mean(h[s.data[i][norm_index + 1][2]])>>]]

\* array -= scalar, in place
ISub(arr, c) == [k \in 1..Len(arr) |-> FSub(arr[k], c)]

\* the loops of _center_spots, lines 86-89, from field i, wavelength j on
RECURSIVE CenterFrom(_, _, _, _, _)
CenterFrom(h, d, cs, i, j) ==
    IF i > Len(d) THEN h
    ELSE IF j > Len(d[i]) THEN CenterFrom(h, d, cs, i + 1, 1)
    ELSE LET rx == d[i][j][1]
             ry == d[i][j][2]
             h1 == [h EXCEPT ![rx] = ISub(h[rx], cs[i][1])]
             h2 == [h1 EXCEPT ![ry] = ISub(h1[ry], cs[i][2])]
         IN  CenterFrom(h2, d, cs, i, j + 1)

\* _center_spots, lines 83-90: the argument is ignored, self.data is copied
_center_spots(h, s, o) ==
    LET cs == centroid(h, s, o)
        cp == deepcopy(h, s.data)
    IN  IF cs.tag # "ok" THEN [tag |-> cs.tag, heap |-> h]
        ELSE [tag |-> "ok", heap |-> CenterFrom(cp.heap, cp.data, cs.value, 1, 1),
              data |-> cp.data]

\* x**2 + y**2 of two arrays
R2(x, y) == [k \in 1..Len(x) |-> FAdd(FSq(x[k]), FSq(y[k]))]

\* geometric_spot_radius, lines 61-70; the maximum of the square roots is
\* the square root of the maximum
geometric_spot_radius(h, s, o) ==
    LET arg == deepcopy(h, s.data)
        c == _center_spots(arg.heap, s, o)
    IN  IF c.tag # "ok" THEN [tag |-> c.tag, heap |-> c.heap]
        ELSE [tag |-> "ok", heap |-> c.heap,
              value |-> [i \in 1..Len(c.data) |-> [j \in 1..Len(c.data[i]) |->
                  Sqrt(FMax(R2(c.heap[c.data[i][j][1]], c.heap[c.data[i][j][2]])))]]]

\* rms_spot_radius, lines 72-81
rms_spot_radius(h, s, o) ==
    LET arg == deepcopy(h, s.data)
        c == _center_spots(arg.heap, s, o)
    IN  IF c.tag # "ok" THEN [tag |-> c.tag, heap |-> c.heap]
        ELSE [tag |-> "ok", heap |-> c.heap,
              value |-> [i \in 1..Len(c.data) |-> [j \in 1..Len(c.data[i]) |->
                  Sqrt(mean(R2(c.heap[c.data[i][j][1]], c.heap[c.data[i][j][2]])))]]]

\* what a call returns or raises
Outcome(r) == IF r.tag = "ok" THEN [tag |-> "ok", value |-> r.value] ELSE [tag |-> r.tag]

\* a call of centroid()
Centroid ==
    /\ pc.at = "ready"
    /\ result' = [result EXCEPT !["centroid"] = Outcome(centroid(heap, self, optic))]
    /\ UNCHANGED <<self, optic, heap, pc, trace_log>>

\* a call of geometric_spot_radius(); its local arrays die at the return
GeometricSpotRadius ==
    /\ pc.at = "ready"
    /\ LET r == geometric_spot_radius(heap, self, optic)
       IN  /\ heap' = SubSeq(r.heap, 1, Len(heap))
           /\ result' = [result EXCEPT !["geometric_spot_radius"] = Outcome(r)]
    /\ UNCHANGED <<self, optic, pc, trace_log>>

\* a call of rms_spot_radius(); its local arrays die at the return
RmsSpotRadius ==
    /\ pc.at = "ready"
    /\ LET r == rms_spot_radius(heap, self, optic)
       IN  /\ heap' = SubSeq(r.heap, 1, Len(heap))
           /\ result' = [result EXCEPT !["rms_spot_radius"] = Outcome(r)]
    /\ UNCHANGED <<self, optic, pc, trace_log>>

SpotNext ==
    \/ SpotFieldLoop
    \/ SpotWaveLoop
    \/ SpotTrace
    \/ SpotRead
    \/ Centroid
    \/ GeometricSpotRadius
    \/ RmsSpotRadius

SpecSpot == SpotInit /\ [][SpotNext]_vars

----------------------------------------------------------------------------
(* Claims about SpotDiagram and EncircledEnergy *)

\* the raw data the instance stores, by value
StoredData == Deref(heap, self.data)

\* C1: a call of centroid(), geometric_spot_radius() or rms_spot_radius()
\* leaves the stored raw data (self.data and the arrays it refers to) as it
\* was, and a read operation called again returns what it returned before.
C1_ReadsLeaveDataUnchanged ==
    [][pc.at = "ready" =>
        /\ self'.data = self.data
        /\ Deref(heap', self'.data) = StoredData
        /\ \A op \in ReadOps : result[op].tag # "none" => result'[op] = result[op]]_vars

\* C1 witness: all three read operations have returned on an instance whose
\* first centroid is off the origin, so the subtraction changed the copy
C1_Witness ==
    /\ pc.at = "ready"
    /\ \A op \in ReadOps : result[op].tag = "ok"
    /\ Len(self.data) = 2
    /\ result["centroid"].value[1] # <<Zero, Zero>>

\* the trace calls _generate_data issues: fields outer, wavelengths inner
ExpectedCalls(flds, wls) ==
    [p \in 1..(Len(flds) * Len(wls)) |->
        <<flds[((p - 1) \div Len(wls)) + 1], wls[((p - 1) % Len(wls)) + 1]>>]

IsPrefix(s, t) == Len(s) <= Len(t) /\ \A k \in 1..Len(s) : s[k] = t[k]

\* reads of the adapter's state done so far by the constructor
ReadsDone ==
    IF pc.at = "ready" THEN Len(self.data) * Len(self.wavelengths)
    ELSE IF pc.at = "field_loop" THEN Len(pc.data) * Len(self.wavelengths)
    ELSE Len(pc.data) * Len(self.wavelengths) + Len(pc.field_data)

\* C2: the constructor issues the trace calls in the order fields outer,
\* wavelengths inner, reads the adapter's state after each trace and before
\* the next one, and ends with len(F) * len(W) calls and data[i][j] holding
\* the positions traced for (F[i], W[j]).
C2_TraceOrder ==
    /\ IsPrefix(trace_log, ExpectedCalls(self.fields, self.wavelengths))
    /\ Len(trace_log) - ReadsDone = (IF pc.at = "read" THEN 1 ELSE 0)
    /\ pc.at = "ready" =>
        /\ Len(trace_log) = Len(self.fields) * Len(self.wavelengths)
        /\ Len(self.data) = Len(self.fields)
        /\ \A i \in 1..Len(self.data) :
            /\ Len(self.data[i]) = Len(self.wavelengths)
            /\ \A j \in 1..Len(self.data[i]) :
                /\ StoredData[i][j][1] = TracedX(self.fields[i], self.wavelengths[j], NumRays)
                /\ StoredData[i][j][2] = TracedY(self.fields[i], self.wavelengths[j], NumRays)

\* C2 witness: a finished construction over two different fields and two
\* different wavelengths
C2_Witness ==
    /\ pc.at = "ready"
    /\ Len(self.fields) = 2 /\ self.fields[1] # self.fields[2]
    /\ Len(self.wavelengths) = 2 /\ self.wavelengths[1] # self.wavelengths[2]
    /\ Len(trace_log) = 4

\* C3: whatever the field list and the wavelength list, centroid() of a
\* SpotDiagram returns for each field the mean x and the mean y of the
\* bundle traced for that field at the optic's primary wavelength.
C3_CentroidAtPrimary ==
    (self.kind = "SpotDiagram" /\ pc.at = "ready" /\ result["centroid"].tag # "none") =>
        /\ result["centroid"].tag = "ok"
        /\ result["centroid"].value =
            [i \in 1..Len(self.fields) |->
                <<mean(TracedX(self.fields[i], primary_wavelength(optic), NumRays)),
                  mean(TracedY(self.fields[i], primary_wavelength(optic), NumRays))>>]

----------------------------------------------------------------------------
(* EncircledEnergy: the encircled-energy curve *)

\* energy[mask] with mask a boolean array: the entries where mask holds
RECURSIVE SelectFrom(_, _, _)
SelectFrom(arr, mask, k) ==
    IF k > Len(arr) THEN <<>>
    ELSE IF mask[k] THEN <<arr[k]>> \o SelectFrom(arr, mask, k + 1)
    ELSE SelectFrom(arr, mask, k + 1)

\* (mutant) np.sum in place of np.nansum
vectorized_ee_sum(x, y, energy, r) ==
    FSum(SelectFrom(energy, [k \in 1..Len(x) |-> SqrtLe(R2(x, y)[k], r)], 1))

\* vectorized_ee, lines 188-189 (and _encircled_energy, 165-166):
\* np.nansum(energy[radii <= r]) with radii = np.sqrt(x**2 + y**2)
vectorized_ee(x, y, energy, r) ==
    FNanSum(SelectFrom(energy, [k \in 1..Len(x) |-> SqrtLe(R2(x, y)[k], r)], 1))

\* buffer=1.2, line 181
Buffer == <<6, 5>>

\* _generate_encircled_energy_data, lines 180-191
_generate_encircled_energy_data(field_data, axis_lim, num_points) ==
    LET r_max == FMul(axis_lim, Buffer)
        r_step == linspace(Zero, r_max, num_points)
    IN  [r_step |-> r_step,
         ee |-> [p \in 1..Len(field_data) |-> [k \in 1..num_points |->
                    vectorized_ee(field_data[p][1], field_data[p][2], field_data[p][3],
                                  r_step[k])]]]

\* image-surface positions (x, y) of a ray; a vignetted ray has NaN
RayPositions == {<<Zero, Zero>>, <<F(1), Zero>>, <<F(3), F(4)>>, <<NaN, NaN>>}
\* transmitted energy of a ray: between 0 and 1, or NaN
RayEnergies == {Zero, <<1, 2>>, F(1), NaN}
\* axis_lim: the largest geometric spot radius (NaN if a position is NaN)
AxisLims == {Zero, F(1), F(5), NaN}

\* the arguments of one call of _generate_encircled_energy_data
EEInit ==
    \E pos \in [1..NumRays -> RayPositions], en \in [1..NumRays -> RayEnergies],
       al \in AxisLims, np \in 1..MaxEEPoints :
        /\ self = [kind |-> "EncircledEnergy",
                   field_data |-> <<<<[k \in 1..NumRays |-> pos[k][1]],
                                      [k \in 1..NumRays |-> pos[k][2]], en>>>>,
                   axis_lim |-> al, num_points |-> np]
        /\ optic = <<>>
        /\ heap = <<>>
        /\ pc = [at |-> "call"]
        /\ trace_log = <<>>
        /\ result = NoResult

\* the call of _generate_encircled_energy_data
GenerateEncircledEnergyData ==
    /\ pc.at = "call"
    /\ LET r == _generate_encircled_energy_data(self.field_data, self.axis_lim, self.num_points)
       IN  result' = [tag |-> "ok", r_step |-> r.r_step, ee |-> r.ee]
    /\ pc' = [at |-> "done"]
    /\ UNCHANGED <<self, optic, heap, trace_log>>

EENext == GenerateEncircledEnergyData

SpecEE == EEInit /\ [][EENext]_vars

\* the energy array with its NaN entries replaced by zero
NanToZero(energy) == [k \in 1..Len(energy) |-> IF IsNaN(energy[k]) THEN Zero ELSE energy[k]]

\* C4: the encircled-energy curve is non-decreasing along the radii, a NaN
\* energy contributes zero (the curve is that of the energies with NaN
\* replaced by 0, and is never NaN), and its value at r = 0 is at most its
\* value at r = r_max.
C4_EncircledEnergyMonotone ==
    pc.at = "done" =>
        \A p \in 1..Len(result.ee) :
            LET ee == result.ee[p]
                fd == self.field_data[p]
            IN  /\ \A k, l \in 1..Len(ee) : k <= l => FLe(ee[k], ee[l])
                /\ FLe(ee[1], ee[Len(ee)])
                /\ \A k \in 1..Len(ee) :
                    /\ IsFinite(ee[k])
                    /\ ee[k] = FSum(SelectFrom(NanToZero(fd[3]),
                                 [n \in 1..Len(fd[1]) |-> SqrtLe(R2(fd[1], fd[2])[n], result.r_step[k])], 1))

\* C4 witness: a curve over several radii that rises strictly, for a bundle
\* with a NaN energy among its rays
C4_Witness ==
    /\ pc.at = "done"
    /\ self.num_points >= 3
    /\ \E n \in 1..NumRays : IsNaN(self.field_data[1][3][n]) /\ self.field_data[1][1][n] = Zero
    /\ result.ee[1][1] # result.ee[1][self.num_points]
    /\ result.ee[1][1] # result.ee[1][2]

----------------------------------------------------------------------------
(* RayFan *)

\* The image-surface coordinate of the rays of a 'line_x' or 'line_y' fan:
\* a function of the field, the wavelength and the pupil coordinate P of
\* each ray (an image height, a tilt and a quadratic aberration)
TracedLine(field, wavelength, distribution, n) ==
    LET H == IF distribution = "line_x" THEN field[1] ELSE field[2]
        P == linspace(F(-1), F(1), n)
    IN  [k \in 1..n |->
            FAdd(F(10 * H + wavelength), FAdd(FMul(F(wavelength), P[k]), FSq(P[k])))]

\* lines 208-210: the adjustment of num_points
AdjustNumPoints(num_points) == IF num_points % 2 = 1 THEN num_points + 1 ELSE num_points

\* a dict entry set: d[key] = value
DictSet(d, key, value) == [k \in DOMAIN d \cup {key} |-> IF k = key THEN value ELSE d[k]]

\* lines 258-278: the tracing loops from field i, wavelength j on; data is
\* keyed by the field and by the wavelength (their formatted text), so a
\* key met again is written again
RECURSIVE FanTraceFrom(_, _, _, _, _, _)
FanTraceFrom(data, flds, wls, n, i, j) ==
    IF i > Len(flds) THEN data
    ELSE IF j > Len(wls) THEN FanTraceFrom(data, flds, wls, n, i + 1, 1)
    ELSE LET f == flds[i]
             w == wls[j]
             fd == IF j = 1 THEN <<>> ELSE data[f]
             entry == [x |-> TracedLine(f, w, "line_x", n), y |-> TracedLine(f, w, "line_y", n)]
         IN  FanTraceFrom(DictSet(data, f, DictSet(fd, w, entry)), flds, wls, n, i, j + 1)

\* lines 285-287: the offsets subtracted in place, from wavelength j on
RECURSIVE FanSubtractFrom(_, _, _, _, _, _)
FanSubtractFrom(fd, wls, wave_ref, xo, yo, j) ==
    IF j > Len(wls) THEN fd
    ELSE LET w == wls[j]
             fd1 == [fd EXCEPT ![w] = [x |-> ISub(fd[w].x, xo), y |-> ISub(fd[w].y, yo)]]
         IN  FanSubtractFrom(fd1, wls, wave_ref, xo, yo, j + 1)

\* lines 280-287: "remove distortion", from field i on; data[field][wave_ref]
\* raises KeyError when the primary wavelength was not traced
RECURSIVE FanOffsetFrom(_, _, _, _, _, _)
FanOffsetFrom(data, flds, wls, wave_ref, n, i) ==
    IF i > Len(flds) THEN [tag |-> "ok", data |-> data]
    ELSE LET f == flds[i]
         IN  IF wave_ref \notin DOMAIN data[f] THEN [tag |-> "KeyError"]
             ELSE LET xo == data[f][wave_ref].x[(n \div 2) + 1]
                      yo == data[f][wave_ref].y[(n \div 2) + 1]
                      fd == FanSubtractFrom(data[f], wls, wave_ref, xo, yo, 1)
                  IN  FanOffsetFrom([data EXCEPT ![f] = fd], flds, wls, wave_ref, n, i + 1)

\* RayFan._generate_data, lines 254-289
RayFan_generate_data(o, flds, wls, n) ==
    LET traced == FanTraceFrom(<<>>, flds, wls, n, 1, 1)
        r == FanOffsetFrom(traced, flds, wls, primary_wavelength(o), n, 1)
    IN  IF r.tag # "ok" THEN r
        ELSE [tag |-> "ok",
              data |-> [Px |-> linspace(F(-1), F(1), n), Py |-> linspace(F(-1), F(1), n),
                        curves |-> r.data]]

\* the trace calls of lines 266-276, in order
FanCalls(flds, wls) ==
    [p \in 1..(2 * Len(flds) * Len(wls)) |->
        LET q == (p - 1) \div 2
        IN  <<flds[(q \div Len(wls)) + 1], wls[(q % Len(wls)) + 1],
              IF p % 2 = 1 THEN "line_x" ELSE "line_y">>]

\* the fields and wavelengths arguments of RayFan.__init__
FanFieldArgs ==
    {[tag |-> "all"]}
        \cup {ListArg(s) : s \in SeqsUpTo({FieldCoords[k] : k \in 1..Len(FieldCoords)}, 1, 2)}

\* RayFan(optic, fields, wavelengths, num_points) is called
RayFanInit ==
    \E fa \in FanFieldArgs, wa \in WavelengthArgs, pidx \in 0..(NumWavelengths - 1),
       np \in 1..MaxFanPoints :
        /\ optic = [wavelengths |-> Wavelengths, primary_index |-> pidx,
                    fields |-> FieldCoords, surface_group |-> <<>>]
        /\ self = [kind |-> "RayFan", fields |-> fa, wavelengths |-> wa, num_points |-> np]
        /\ heap = <<>>
        /\ pc = [at |-> "init"]
        /\ trace_log = <<>>
        /\ result = NoResult

\* RayFan.__init__, lines 204-218
RayFanConstruct ==
    /\ pc.at = "init"
    /\ LET flds == SpotFields(optic, self.fields)
           wls == SpotWavelengths(optic, self.wavelengths)
           n == AdjustNumPoints(self.num_points)
           r == RayFan_generate_data(optic, flds, wls, n)
       IN  /\ trace_log' = FanCalls(flds, wls)
           /\ IF r.tag = "ok"
              THEN /\ self' = [kind |-> "RayFan", fields |-> flds, wavelengths |-> wls,
                               num_points |-> n, data |-> r.data]
                   /\ pc' = [at |-> "ready"]
              ELSE /\ self' = [kind |-> "RayFan", fields |-> flds, wavelengths |-> wls,
                               num_points |-> n]
                   /\ pc' = [at |-> r.tag]
    /\ UNCHANGED <<optic, heap, result>>

RayFanNext == RayFanConstruct

SpecRayFan == RayFanInit /\ [][RayFanNext]_vars

\* C5: after the adjustment of num_points, Px and Py hold a sample exactly
\* at pupil coordinate 0, and it is the sample at index num_points // 2.
C5_SampleAtPupilZero ==
    pc.at = "ready" =>
        /\ self.data.Px[(self.num_points \div 2) + 1] = Zero
        /\ self.data.Py[(self.num_points \div 2) + 1] = Zero

\* C6: after construction, for every field f and wavelength w of the lists,
\* the stored x (y) curve is the traced line_x (line_y) curve of (f, w) minus
\* the traced primary-wavelength curve of f at the centre sample, so the
\* primary wavelength's stored curves are zero at the centre sample.
C6_OffsetSubtractedOnce ==
    pc.at = "ready" =>
        \A i \in 1..Len(self.fields) :
            LET f == self.fields[i]
                n == self.num_points
                c == (n \div 2) + 1
                xo == TracedLine(f, primary_wavelength(optic), "line_x", n)[c]
                yo == TracedLine(f, primary_wavelength(optic), "line_y", n)[c]
            IN  /\ \A j \in 1..Len(self.wavelengths) :
                    LET w == self.wavelengths[j]
                    IN  /\ self.data.curves[f][w].x = ISub(TracedLine(f, w, "line_x", n), xo)
                        /\ self.data.curves[f][w].y = ISub(TracedLine(f, w, "line_y", n), yo)
                /\ self.data.curves[f][primary_wavelength(optic)].x[c] = Zero
                /\ self.data.curves[f][primary_wavelength(optic)].y[c] = Zero

----------------------------------------------------------------------------
(* Distortion and GridDistortion *)

\* The field epsilon 1e-10 of lines 356, 364 and 417 is smaller than the
\* model's integers can express.  It is held as the marker value Eps; a
\* quantity of its order stays Eps, and a term of higher order in it is
\* below rounding and vanishes.
Eps == <<1, 1000>>

\* A field coordinate or an angle in radians of the form coef * sqrt(sqrt_of),
\* which np.sqrt(2) / 2 makes of the grid's coordinates
Rational(q) == [coef |-> q, sqrt_of |-> F(1)]

\* the square of a coordinate
SurdSq(a) == FMul(FSq(a.coef), a.sqrt_of)

\* Angles are counted in units of atan(1/5) = 0.19739556 rad, whose tangent
\* is 1/5: np.tan of a whole number of units is the fraction that the
\* addition formula for the tangent gives.
TanUnit == <<1, 5>>

\* tan(a + atan(1/5)) from t = tan(a)
TanStep(t) == FDiv(FAdd(t, TanUnit), FSub(F(1), FMul(t, TanUnit)))

RECURSIVE TanOfUnits(_)
TanOfUnits(k) ==
    IF k = 0 THEN Zero
    ELSE IF k < 0 THEN FNeg(TanOfUnits(-k))
    ELSE TanStep(TanOfUnits(k - 1))

\* np.radians(optic.fields.max_field) as a number of units: the Distortion
\* optics have a maximum field of 6 units (67.86 degrees), the GridDistortion
\* optics one of 3 * sqrt(2) units (47.99 degrees), so that the field angles
\* of up to four samples across the field are whole numbers of units
max_field_rad(kind) ==
    IF kind = "Distortion" THEN Rational(F(6)) ELSE [coef |-> F(3), sqrt_of |-> F(2)]

\* H * np.radians(max_field), in units, for a coordinate H with the surd of
\* the maximum field; the angle of the field epsilon is held as Eps
FieldAngle(H, max_field) ==
    IF H.coef = Eps THEN Eps
    ELSE IF H.coef = Zero THEN Zero
    ELSE FMul(FMul(H.coef, max_field.coef), max_field.sqrt_of)

\* np.tan(t) of an angle of t units; at the epsilon angle the tangent is the
\* angle
Tan(t) == IF t = Eps THEN Eps ELSE TanOfUnits(t[1])

\* paraxial image scale of the lens at a wavelength
Focal(o, wavelength) == F(55 * wavelength)

\* The chief ray (Px = Py = 0) of field (Hx, Hy) at the image surface, as
\* trace_generic leaves it in surface_group: an f-tan image that the lens
\* flips in x, stretched by 1 + o.distortion * (Hx^2 + Hy^2), with an x
\* decentre
TracedChief(o, Hx, Hy, wavelength) ==
    LET f == Focal(o, wavelength)
        r2 == IF Hx.coef = Eps \/ Hy.coef = Eps THEN Zero ELSE FAdd(SurdSq(Hx), SurdSq(Hy))
        tx == Tan(FieldAngle(Hx, o.max_field_rad))
        ty == Tan(FieldAngle(Hy, o.max_field_rad))
        stretch == FAdd(F(1), FMul(o.distortion, r2))
    IN  [x |-> FAdd(FNeg(FMul(FMul(f, tx), stretch)), o.decentre),
         y |-> FMul(FMul(f, ty), stretch)]

DistortionTypes == {"f-tan", "f-theta", "f-sin"}

\* line 356: np.linspace(1e-10, 1, num_points); the samples after the first
\* are held at their value for an epsilon of 0
DistortionHy(n) ==
    [k \in 1..n |-> Rational(IF k = 1 THEN Eps ELSE linspace(Zero, F(1), n)[k])]

\* lines 359-377: the loop body for one wavelength, after its trace
DistortionCurve(o, wavelength, n, distortion_type) ==
    LET Hy == DistortionHy(n)
        yr == [k \in 1..n |-> TracedChief(o, Rational(Zero), Hy[k], wavelength).y]
        const == FDiv(yr[1], Tan(FieldAngle(Rational(Eps), o.max_field_rad)))
        yp == [k \in 1..n |-> FMul(const, Tan(FieldAngle(Hy[k], o.max_field_rad)))]
    IN  IF distortion_type \in {"f-tan", "f-theta"}
        THEN [tag |-> "ok",
              curve |-> [k \in 1..n |-> FDiv(FMul(F(100), FSub(yr[k], yp[k])), yp[k])]]
        ELSE [tag |-> "ValueError"]

\* Distortion._generate_data, lines 354-379, from wavelength j on
RECURSIVE DistortionFrom(_, _, _, _, _, _)
DistortionFrom(data, o, wls, n, distortion_type, j) ==
    IF j > Len(wls) THEN [tag |-> "ok", data |-> data, traces |-> j - 1]
    ELSE LET c == DistortionCurve(o, wls[j], n, distortion_type)
         IN  IF c.tag # "ok" THEN [tag |-> c.tag, traces |-> j]
             ELSE DistortionFrom(Append(data, c.curve), o, wls, n, distortion_type, j + 1)

Distortion_generate_data(o, wls, n, distortion_type) ==
    DistortionFrom(<<>>, o, wls, n, distortion_type, 1)

\* np.sqrt(2) / 2 of line 423
Sqrt2Over2 == [coef |-> <<1, 2>>, sqrt_of |-> F(2)]

\* np.flip(a) of an n x n array: both axes reversed
flip(a, n) == [i \in 1..n |-> [j \in 1..n |-> a[n + 1 - i][n + 1 - j]]]

\* an n x n array as the list of its entries
Flatten(a, n) == [p \in 1..(n * n) |-> a[((p - 1) \div n) + 1][((p - 1) % n) + 1]]

\* lines 428-432: const * np.tan(H * np.radians(max_field)), elementwise
GridIdeal(const, H, max_field, n) ==
    [i \in 1..n |-> [j \in 1..n |-> FMul(const, Tan(FieldAngle(H[i][j], max_field)))]]

\* lines 437-446: the grid's chief rays, reshaped to n x n
GridTraced(o, Hx, Hy, wavelength, n) ==
    [i \in 1..n |-> [j \in 1..n |-> TracedChief(o, Hx[i][j], Hy[i][j], wavelength)]]

\* lines 453-457 at one grid point: (delta / rp)^2, the square of the
\* deviation from the ideal position over the ideal radius
Ratio2(xp, yp, xr, yr) ==
    FDiv(FAdd(FSq(FSub(xp, xr)), FSq(FSub(yp, yr))), FAdd(FSq(xp), FSq(yp)))

\* lines 440-457: the data dictionary.  100 * delta / rp is
\* 100 * sqrt((delta / rp)^2), so max_distortion is held as the largest
\* (delta / rp)^2, the radicand
GridData(xp, yp, real, n) ==
    [xr |-> [i \in 1..n |-> [j \in 1..n |-> real[i][j].x]],
     yr |-> [i \in 1..n |-> [j \in 1..n |-> real[i][j].y]],
     xp |-> flip(xp, n),
     yp |-> yp,
     max_distortion |->
        [hundred_times_sqrt_of |->
            FMax(Flatten([i \in 1..n |-> [j \in 1..n |->
                Ratio2(flip(xp, n)[i][j], yp[i][j], real[i][j].x, real[i][j].y)]], n))]]

\* lines 423-425: np.linspace and np.meshgrid
GridExtent(n) ==
    [k \in 1..n |-> [coef |-> linspace(FNeg(Sqrt2Over2.coef), Sqrt2Over2.coef, n)[k],
                     sqrt_of |-> Sqrt2Over2.sqrt_of]]
MeshHx(n) == [i \in 1..n |-> [j \in 1..n |-> GridExtent(n)[j]]]
MeshHy(n) == [i \in 1..n |-> [j \in 1..n |-> GridExtent(n)[i]]]

\* lines 417-421: the reference ray and the image scale it gives
GridConst(o, wavelength) ==
    FDiv(TracedChief(o, Rational(Zero), Rational(Eps), wavelength).y,
         Tan(FieldAngle(Rational(Eps), o.max_field_rad)))

\* GridDistortion._generate_data, lines 415-459
GridDistortion_generate_data(o, wavelength, n, distortion_type) ==
    IF distortion_type \in {"f-tan", "f-theta"}
    THEN [tag |-> "ok", traces |-> 2,
          data |-> GridData(GridIdeal(GridConst(o, wavelength), MeshHx(n), o.max_field_rad, n),
                            GridIdeal(GridConst(o, wavelength), MeshHy(n), o.max_field_rad, n),
                            GridTraced(o, MeshHx(n), MeshHy(n), wavelength, n), n)]
    ELSE [tag |-> "ValueError", traces |-> 1]

\* the wavelengths argument of Distortion ('all' or a list, which may be
\* empty) and the wavelength argument of GridDistortion
DistortionWavelengthArgs ==
    {[tag |-> "all"]} \cup {ListArg(s) : s \in SeqsUpTo(1..NumWavelengths, 0, NumWavelengths)}

\* Distortion(...) or GridDistortion(...) is called
DistortionInit ==
    \E kind \in {"Distortion", "GridDistortion"},
       wa \in DistortionWavelengthArgs \cup WavelengthArg,
       pidx \in 0..(NumWavelengths - 1), np \in 1..MaxDistPoints, dt \in DistortionTypes,
       dist \in {Zero, <<1, 3>>}, dec \in {Zero, F(1)} :
        /\ kind = "Distortion" => wa \in DistortionWavelengthArgs
        /\ kind = "GridDistortion" => wa \in WavelengthArg
        /\ optic = [wavelengths |-> Wavelengths, primary_index |-> pidx,
                    fields |-> FieldCoords, surface_group |-> <<>>,
                    max_field_rad |-> max_field_rad(kind),
                    distortion |-> dist, decentre |-> dec]
        /\ self = [kind |-> kind, wavelengths |-> wa, num_points |-> np, distortion_type |-> dt]
        /\ heap = <<>>
        /\ pc = [at |-> "init"]
        /\ trace_log = <<>>
        /\ result = NoResult

\* Distortion.__init__, lines 327-335
DistortionConstruct ==
    /\ pc.at = "init"
    /\ self.kind = "Distortion"
    /\ \E wls \in {SpotWavelengths(optic, self.wavelengths)} :
       \E r \in {Distortion_generate_data(optic, wls, self.num_points, self.distortion_type)} :
           /\ trace_log' = [k \in 1..r.traces |-> <<"Hy", wls[k]>>]
           /\ IF r.tag = "ok"
              THEN /\ self' = [kind |-> self.kind, wavelengths |-> wls,
                               num_points |-> self.num_points,
                               distortion_type |-> self.distortion_type, data |-> r.data]
                   /\ pc' = [at |-> "ready"]
              ELSE /\ self' = [kind |-> self.kind, wavelengths |-> wls,
                               num_points |-> self.num_points,
                               distortion_type |-> self.distortion_type]
                   /\ pc' = [at |-> r.tag]
    /\ UNCHANGED <<optic, heap, result>>

\* GridDistortion.__init__, lines 384-392
GridDistortionConstruct ==
    /\ pc.at = "init"
    /\ self.kind = "GridDistortion"
    /\ \E w \in {SpotWavelengths(optic, self.wavelengths)[1]} :
       \E r \in {GridDistortion_generate_data(optic, w, self.num_points, self.distortion_type)} :
           /\ trace_log' = SubSeq(<<<<"reference", w>>, <<"grid", w>>>>, 1, r.traces)
           /\ IF r.tag = "ok"
              THEN /\ self' = [kind |-> self.kind, wavelength |-> w,
                               num_points |-> self.num_points,
                               distortion_type |-> self.distortion_type, data |-> r.data]
                   /\ pc' = [at |-> "ready"]
              ELSE /\ self' = [kind |-> self.kind, wavelength |-> w,
                               num_points |-> self.num_points,
                               distortion_type |-> self.distortion_type]
                   /\ pc' = [at |-> r.tag]
    /\ UNCHANGED <<optic, heap, result>>

DistortionNext ==
    \/ DistortionConstruct
    \/ GridDistortionConstruct

SpecDistortion == DistortionInit /\ [][DistortionNext]_vars

\* C7: a Distortion or GridDistortion given a distortion_type other than
\* "f-tan" or "f-theta" fails at construction, whatever the wavelengths: no
\* constructed analyzer (one holding data) has an unsupported type.
C7_UnsupportedTypeRejected ==
    pc.at = "ready" => self.distortion_type \in {"f-tan", "f-theta"}

\* the grid points (i, j) whose ideal position is not the origin
NonOrigin(d, n) ==
    {ij \in (1..n) \X (1..n) : ~(d.xp[ij[1]][ij[2]] = Zero /\ d.yp[ij[1]][ij[2]] = Zero)}

\* (deviation / ideal radius)^2 at grid point ij of the stored data
DataRatio2(d, ij) ==
    Ratio2(d.xp[ij[1]][ij[2]], d.yp[ij[1]][ij[2]], d.xr[ij[1]][ij[2]], d.yr[ij[1]][ij[2]])

\* C8: for odd and for even num_points, max_distortion is 100 times the
\* largest deviation / ideal radius over the grid points whose ideal position
\* is not the origin; a point of ideal radius zero takes no part.
C8_MaxOverNonOrigin ==
    (pc.at = "ready" /\ self.kind = "GridDistortion") =>
        \E m \in {self.data.max_distortion.hundred_times_sqrt_of} :
            /\ \E ij \in NonOrigin(self.data, self.num_points) : m = DataRatio2(self.data, ij)
            /\ \A ij \in NonOrigin(self.data, self.num_points) : FLe(DataRatio2(self.data, ij), m)

----------------------------------------------------------------------------
(* FieldCurvature *)

\* the repetition count of np.tile at lines 510 and 534
TileCount == 128

\* the default delta of lines 505 and 530, 1e-5
Delta == <<1, 100000>>

zeros(n) == [k \in 1..n |-> Zero]
\* np.repeat(a, 2): every entry twice in a row
repeat2(a) == [k \in 1..(2 * Len(a)) |-> a[(k + 1) \div 2]]
\* np.tile(np.array([-delta, delta]), reps)
tile(delta, reps) == [k \in 1..(2 * reps) |-> IF k % 2 = 1 THEN FNeg(delta) ELSE delta]
\* a[::2] and a[1::2]
EvenSlice(a) == [k \in 1..((Len(a) + 1) \div 2) |-> a[(2 * k) - 1]]
OddSlice(a) == [k \in 1..(Len(a) \div 2) |-> a[2 * k]]

\* One ray of trace_generic at the image surface z = 0.  The two rays of a
\* pair leave the pupil at -delta and +delta and cross where the lens focuses
\* the field point, o.curvature * wavelength * Hy^2 from the image surface,
\* with direction cosines (3/5, 4/5) mirrored; where the lens does not focus
\* (o.parallel) both rays run along the axis, o.separation apart.
ParabasalRay(o, Hx, Hy, Px, Py, wavelength) ==
    LET sx == Sign(Px[1])
        sy == Sign(Py[1])
        par == o.parallel = "all" \/ (o.parallel = "axis" /\ Hy = Zero)
        zc == FMul(F(o.curvature * wavelength), FSq(Hy))
        off == IF par THEN o.separation ELSE FMul(<<3, 4>>, zc)
    IN  [x |-> FMul(F(sx), off),
         y |-> FAdd(FMul(F(10 * wavelength), Hy), FMul(F(sy), off)),
         z |-> Zero,
         L |-> IF par THEN Zero ELSE <<-3 * sx, 5>>,
         M |-> IF par THEN Zero ELSE <<-3 * sy, 5>>,
         N |-> IF par \/ (sx = 0 /\ sy = 0) THEN F(1) ELSE <<4, 5>>]

\* optic.trace_generic(Hx, Hy, Px, Py, wavelength): the four arrays are
\* combined elementwise, which numpy refuses for arrays of unequal lengths
\* (none has length 1 here)
trace_generic(o, Hx, Hy, Px, Py, wavelength) ==
    IF Cardinality({Len(Hx), Len(Hy), Len(Px), Len(Py)}) # 1
    THEN [tag |-> "ValueError"]
    ELSE [tag |-> "ok",
          rays |-> [k \in 1..Len(Hx) |-> ParabasalRay(o, Hx[k], Hy[k], Px[k], Py[k], wavelength)]]

\* the determinant of lines 526 and 551: A1*N2 - A2*N1
Determinant(A1, N1, A2, N2) == FSub(FMul(A1, N2), FMul(A2, N1))

\* the offset with the two z terms of the numerator added
IntersectionOffset_z_sum(A1, N1, A2, N2, p01, z01, p02, z02) ==
    FMul(FDiv(FAdd(FSub(FAdd(FMul(A2, z01), FMul(A2, z02)), FMul(N2, p01)), FMul(N2, p02)),
              Determinant(A1, N1, A2, N2)),
         N1)

\* lines 526-528 and 551-553 for one ray pair, A the direction cosine and p
\* the coordinate in the plane of the pair:
\* (A2*z01 - A2*z02 - N2*p01 + N2*p02) / (A1*N2 - A2*N1) * N1
IntersectionOffset(A1, N1, A2, N2, p01, z01, p02, z02) ==
    FMul(FDiv(FAdd(FSub(FSub(FMul(A2, z01), FMul(A2, z02)), FMul(N2, p01)), FMul(N2, p02)),
              Determinant(A1, N1, A2, N2)),
         N1)

TangentialOffsets(rays) ==
    [k \in 1..(Len(rays) \div 2) |->
        IntersectionOffset(EvenSlice(rays)[k].M, EvenSlice(rays)[k].N,
                           OddSlice(rays)[k].M, OddSlice(rays)[k].N,
                           EvenSlice(rays)[k].y, EvenSlice(rays)[k].z,
                           OddSlice(rays)[k].y, OddSlice(rays)[k].z)]

SagittalOffsets(rays) ==
    [k \in 1..(Len(rays) \div 2) |->
        IntersectionOffset(EvenSlice(rays)[k].L, EvenSlice(rays)[k].N,
                           OddSlice(rays)[k].L, OddSlice(rays)[k].N,
                           EvenSlice(rays)[k].x, EvenSlice(rays)[k].z,
                           OddSlice(rays)[k].x, OddSlice(rays)[k].z)]

\* the arrays of lines 506-510 and of lines 531-535
TangentialArgs(n) ==
    [Hx |-> zeros(2 * n), Hy |-> repeat2(linspace(Zero, F(1), n)),
     Px |-> zeros(2 * n), Py |-> tile(Delta, TileCount)]
SagittalArgs(n) ==
    [Hx |-> zeros(2 * n), Hy |-> repeat2(linspace(Zero, F(1), n)),
     Px |-> tile(Delta, TileCount), Py |-> zeros(2 * n)]

TraceArgs(o, a, wavelength) == trace_generic(o, a.Hx, a.Hy, a.Px, a.Py, wavelength)

\* FieldCurvature._intersection_parabasal_tangential, lines 505-528
_intersection_parabasal_tangential(o, wavelength, n) ==
    IF TraceArgs(o, TangentialArgs(n), wavelength).tag # "ok"
    THEN [tag |-> TraceArgs(o, TangentialArgs(n), wavelength).tag]
    ELSE [tag |-> "ok",
          offsets |-> TangentialOffsets(TraceArgs(o, TangentialArgs(n), wavelength).rays)]

\* FieldCurvature._intersection_parabasal_sagittal, lines 530-553
_intersection_parabasal_sagittal(o, wavelength, n) ==
    IF TraceArgs(o, SagittalArgs(n), wavelength).tag # "ok"
    THEN [tag |-> TraceArgs(o, SagittalArgs(n), wavelength).tag]
    ELSE [tag |-> "ok",
          offsets |-> SagittalOffsets(TraceArgs(o, SagittalArgs(n), wavelength).rays)]

\* the lengths of the arrays a trace_generic call is given
ArgLens(a) == <<Len(a.Hx), Len(a.Hy), Len(a.Px), Len(a.Py)>>

\* lines 498-501 for one wavelength, given the two solvers' outcomes
CurvatureStep(t, sag, wavelength, n) ==
    IF t.tag # "ok"
    THEN [tag |-> t.tag,
          log |-> <<<<"tangential", wavelength, ArgLens(TangentialArgs(n))>>>>]
    ELSE [tag |-> sag.tag,
          log |-> <<<<"tangential", wavelength, ArgLens(TangentialArgs(n))>>,
                    <<"sagittal", wavelength, ArgLens(SagittalArgs(n))>>>>,
          entry |-> IF sag.tag = "ok" THEN <<t.offsets, sag.offsets>> ELSE <<>>]

\* FieldCurvature._generate_data, lines 495-503, from wavelength j on
RECURSIVE CurvatureFrom(_, _, _, _, _, _)
\* lines 501-503: the entry of wavelength j is appended and the loop goes on,
\* unless a trace of the wavelength has failed
CurvatureAppend(st, data, log, o, wls, n, j) ==
    IF st.tag # "ok" THEN [tag |-> st.tag, log |-> log \o st.log]
    ELSE CurvatureFrom(Append(data, st.entry), log \o st.log, o, wls, n, j + 1)

CurvatureFrom(data, log, o, wls, n, j) ==
    IF j > Len(wls) THEN [tag |-> "ok", data |-> data, log |-> log]
    ELSE CurvatureAppend(CurvatureStep(_intersection_parabasal_tangential(o, wls[j], n),
                                       _intersection_parabasal_sagittal(o, wls[j], n),
                                       wls[j], n),
                         data, log, o, wls, n, j)

FieldCurvature_generate_data(o, wls, n) == CurvatureFrom(<<>>, <<>>, o, wls, n, 1)

\* the wavelengths argument of FieldCurvature: 'all', [] or one wavelength
CurvatureWavelengthArgs ==
    {[tag |-> "all"]} \cup {ListArg(s) : s \in SeqsUpTo(1..NumWavelengths, 0, 1)}

\* FieldCurvature(optic, wavelengths, num_points) is called
FieldCurvatureInit ==
    \E wa \in CurvatureWavelengthArgs,
       np \in (1..MaxCurvPoints) \cup {TileCount},
       c \in {0, 1}, par \in {"none", "axis", "all"}, sep \in {Zero, F(1)} :
        /\ optic = [wavelengths |-> Wavelengths, primary_index |-> 0,
                    fields |-> FieldCoords, surface_group |-> <<>>,
                    curvature |-> c, parallel |-> par, separation |-> sep]
        /\ self = [wavelengths |-> wa, num_points |-> np]
        /\ heap = <<>>
        /\ pc = [at |-> "init"]
        /\ trace_log = <<>>
        /\ result = NoResult

\* FieldCurvature.__init__, lines 464-470
FieldCurvatureConstruct ==
    /\ pc.at = "init"
    /\ \E wls \in {SpotWavelengths(optic, self.wavelengths)} :
       \E r \in {FieldCurvature_generate_data(optic, wls, self.num_points)} :
           /\ trace_log' = r.log
           /\ IF r.tag = "ok"
              THEN /\ self' = [wavelengths |-> wls, num_points |-> self.num_points,
                               data |-> r.data]
                   /\ pc' = [at |-> "ready"]
              ELSE /\ self' = [wavelengths |-> wls, num_points |-> self.num_points]
                   /\ pc' = [at |-> r.tag]
    /\ UNCHANGED <<optic, heap, result>>

FieldCurvatureNext == FieldCurvatureConstruct

SpecFieldCurvature == FieldCurvatureInit /\ [][FieldCurvatureNext]_vars

\* the determinants of the ray pairs of one solver call
PairDeterminants(rays, plane) ==
    [k \in 1..(Len(rays) \div 2) |->
        IF plane = "tangential"
        THEN Determinant(EvenSlice(rays)[k].M, EvenSlice(rays)[k].N,
                         OddSlice(rays)[k].M, OddSlice(rays)[k].N)
        ELSE Determinant(EvenSlice(rays)[k].L, EvenSlice(rays)[k].N,
                         OddSlice(rays)[k].L, OddSlice(rays)[k].N)]

\* some ray pair of a constructed FieldCurvature had a zero determinant
SomeZeroDeterminant ==
    \E j \in 1..Len(self.wavelengths) :
        \/ \E d \in {PairDeterminants(
                        TraceArgs(optic, TangentialArgs(self.num_points), self.wavelengths[j]).rays,
                        "tangential")} : \E k \in 1..Len(d) : d[k] = Zero
        \/ \E d \in {PairDeterminants(
                        TraceArgs(optic, SagittalArgs(self.num_points), self.wavelengths[j]).rays,
                        "sagittal")} : \E k \in 1..Len(d) : d[k] = Zero

\* C9: when the determinant of the intersection solve is zero for some ray
\* pair, construction of the FieldCurvature fails: no constructed analyzer
\* has met a zero determinant, and none holds an inf or NaN offset.
C9_ZeroDeterminantFails ==
    pc.at = "ready" =>
        /\ ~SomeZeroDeterminant
        /\ \A j \in 1..Len(self.data) : \A pl \in 1..2 :
              \A k \in 1..Len(self.data[j][pl]) : IsFinite(self.data[j][pl][k])

----------------------------------------------------------------------------
(* FieldCurvature: the intersection solve on traced rays *)

\* rays as trace_generic may leave them in optic.surface_group at the image
\* surface: position (x, y, z) and direction cosines (L, M, N), N > 0
TracedRays ==
    {[x |-> Zero, y |-> Zero, z |-> Zero, L |-> Zero, M |-> Zero, N |-> F(1)],
     [x |-> <<1, 2>>, y |-> F(-1), z |-> Zero, L |-> <<-3, 5>>, M |-> <<3, 5>>, N |-> <<4, 5>>],
     [x |-> F(-1), y |-> <<1, 2>>, z |-> <<1, 10>>, L |-> <<3, 5>>, M |-> <<-3, 5>>, N |-> <<4, 5>>],
     [x |-> F(2), y |-> F(1), z |-> <<-1, 5>>, L |-> <<4, 5>>, M |-> Zero, N |-> <<3, 5>>],
     [x |-> Zero, y |-> F(3), z |-> <<1, 10>>, L |-> Zero, M |-> <<-4, 5>>, N |-> <<3, 5>>]}

\* trace_generic has returned at line 512 or 537 with the rays of NumPairs
\* ray pairs
IntersectionInit ==
    \E rays \in [1..(2 * NumPairs) -> TracedRays] :
        /\ optic = [traced |-> rays]
        /\ self = [num_points |-> NumPairs]
        /\ heap = <<>>
        /\ pc = [at |-> "traced"]
        /\ trace_log = <<>>
        /\ result = NoResult

\* lines 514-528 and lines 539-553 on the traced rays
SolveIntersections ==
    /\ pc.at = "traced"
    /\ result' = [tag |-> "ok",
                  tangential |-> TangentialOffsets(optic.traced),
                  sagittal |-> SagittalOffsets(optic.traced)]
    /\ pc' = [at |-> "solved"]
    /\ UNCHANGED <<self, optic, heap, trace_log>>

IntersectionNext == SolveIntersections

SpecIntersection == IntersectionInit /\ [][IntersectionNext]_vars

----------------------------------------------------------------------------
(* FFTPSF: pupils and their padding *)

\* a complex number amplitude * exp(1j * 2 * pi * turns); 0 is CZero
CZero == [amp |-> Zero, turns |-> Zero]

\* the wavefront data of Wavefront.__init__ at ray (i, j) of the uniform
\* grid: optical path difference in waves (taken modulo one wave) and
\* intensity 1
Opd(seed, i, j) == <<(seed * (i + (2 * j))) % 4, 4>>

\* FFTPSF._generate_pupils, lines 99-115, for the one wavelength of the
\* constructor: zero outside the unit circle R <= 1, amplitude * exp(...)
\* inside; the amplitude is intensity / mean(intensity) = 1
_generate_pupils(num_rays, seed) ==
    <<[i \in 1..num_rays |-> [j \in 1..num_rays |->
        IF FLe(FAdd(FSq(linspace(F(-1), F(1), num_rays)[j]),
                    FSq(linspace(F(-1), F(1), num_rays)[i])), F(1))
        THEN [amp |-> F(1), turns |-> Norm(Opd(seed, i, j)[1], Opd(seed, i, j)[2])]
        ELSE CZero]]>>

\* line 167: pad = (self.grid_size - pupil.shape[0]) // 2
PadWidth(grid_size, size) == (grid_size - size) \div 2

\* np.pad(pupil, ((pad, pad), (pad, pad)), mode='constant',
\* constant_values=0) of a size x size array, pad >= 0
np_pad(pupil, size, pad) ==
    [i \in 1..(size + (2 * pad)) |-> [j \in 1..(size + (2 * pad)) |->
        IF i > pad /\ i <= pad + size /\ j > pad /\ j <= pad + size
        THEN pupil[i - pad][j - pad]
        ELSE CZero]]

\* FFTPSF._pad_pupils, lines 164-171; np.pad raises ValueError for a
\* negative pad width
_pad_pupils(pupils, grid_size) ==
    IF \E k \in 1..Len(pupils) : PadWidth(grid_size, Len(pupils[k])) < 0
    THEN [tag |-> "ValueError"]
    ELSE [tag |-> "ok",
          value |-> [k \in 1..Len(pupils) |->
                        np_pad(pupils[k], Len(pupils[k]),
                               PadWidth(grid_size, Len(pupils[k])))]]

\* FFTPSF.__init__ has run through line 16: self.pupils is set
PSFInit ==
    \E nr \in 1..MaxPupilRays, gs \in 1..MaxGridSize, seed \in 0..(NumWavefronts - 1) :
        /\ optic = [wavelengths |-> Wavelengths, primary_index |-> 0,
                    fields |-> FieldCoords, surface_group |-> <<>>]
        /\ self = [num_rays |-> nr, grid_size |-> gs, pupils |-> _generate_pupils(nr, seed)]
        /\ heap = <<>>
        /\ pc = [at |-> "pupils"]
        /\ trace_log = <<>>
        /\ result = NoResult

\* self._pad_pupils() is called (line 120 of _compute_psf)
PadPupils ==
    /\ pc.at = "pupils"
    /\ result' = _pad_pupils(self.pupils, self.grid_size)
    /\ pc' = [at |-> IF result'.tag = "ok" THEN "padded" ELSE result'.tag]
    /\ UNCHANGED <<self, optic, heap, trace_log>>

PSFNext == PadPupils

SpecPSF == PSFInit /\ [][PSFNext]_vars

\* p is the size x size array a surrounded by z rows and columns of zeros
\* on each of its four sides
Surrounds(p, a, size, z) ==
    /\ Len(p) = size + (2 * z)
    /\ \A i \in 1..Len(p) :
        /\ Len(p[i]) = size + (2 * z)
        /\ \A j \in 1..Len(p[i]) :
            p[i][j] = IF i > z /\ i <= z + size /\ j > z /\ j <= z + size
                      THEN a[i - z][j - z] ELSE CZero

\* C10: for grid_size >= num_rays every padded pupil is exactly
\* grid_size x grid_size and holds the original pupil with the same number
\* of zero rows and columns on each side.
C10_PadToGridSize ==
    (pc.at = "padded" /\ self.grid_size >= self.num_rays) =>
        \A k \in 1..Len(self.pupils) :
            /\ Len(result.value[k]) = self.grid_size
            /\ \E z \in 0..self.grid_size :
                Surrounds(result.value[k], self.pupils[k], self.num_rays, z)

----------------------------------------------------------------------------
(* FFTPSF: construction, the point-spread function and its views *)

\* The sizes N of a discrete Fourier transform whose factors
\* exp(-2j * pi * m / N) have rational real and imaginary parts (they are
\* powers of 1j); the transform is computed exactly for these sizes
ExactSizes == {1, 2, 4}

COne == [amp |-> F(1), turns |-> Zero]

\* the phase of c in quarter turns, 0..3
Quarter(c) == (4 * c.turns[1]) \div c.turns[2]

\* c * exp(-2j * pi * m / N) for N in ExactSizes
Twiddled(c, m, N) ==
    [amp |-> c.amp,
     turns |-> Norm((Quarter(c) + (4 - ((m * (4 \div N)) % 4))) % 4, 4)]

\* real and imaginary part of c
CRe(c) ==
    IF Quarter(c) = 0 THEN c.amp ELSE IF Quarter(c) = 2 THEN FNeg(c.amp) ELSE Zero
CIm(c) ==
    IF Quarter(c) = 1 THEN c.amp ELSE IF Quarter(c) = 3 THEN FNeg(c.amp) ELSE Zero

\* term p of the transform sum at frequency (u, v): entry (j, k) of a times
\* exp(-2j * pi * (u * j + v * k) / N), indices from 0
FftTerm(a, N, u, v, p) ==
    Twiddled(a[((p - 1) \div N) + 1][((p - 1) % N) + 1],
             (u * ((p - 1) \div N)) + (v * ((p - 1) % N)), N)

\* A numpy array holds its values: the entries 1..n of s, each computed once
RECURSIVE StoredFrom(_, _)
StoredFrom(s, n) == IF n = 0 THEN <<>> ELSE Append(StoredFrom(s, n - 1), s[n])
Stored2(a, N) == StoredFrom([i \in 1..N |-> StoredFrom(a[i], N)], N)

\* np.fft.fft2 of an N x N array, as real and imaginary parts
fft2(a, N) ==
    Stored2([i \in 1..N |-> [j \in 1..N |->
        [re |-> FSum([p \in 1..(N * N) |-> CRe(FftTerm(a, N, i - 1, j - 1, p))]),
         im |-> FSum([p \in 1..(N * N) |-> CIm(FftTerm(a, N, i - 1, j - 1, p))])]]], N)

\* np.fft.fftshift of an N x N array: both axes rolled by N // 2
fftshift(a, N) ==
    [i \in 1..N |-> [j \in 1..N |->
        a[(((i - 1) + (N - (N \div 2))) % N) + 1][(((j - 1) + (N - (N \div 2))) % N) + 1]]]

\* amp * np.conj(amp), elementwise; the imaginary part is 0
SquaredModulus(amp, N) ==
    [i \in 1..N |-> [j \in 1..N |-> FAdd(FSq(amp[i][j].re), FSq(amp[i][j].im))]]

\* lines 174-175: the pupil with every nonzero entry set to 1
P_nom(pupil, n) ==
    [i \in 1..n |-> [j \in 1..n |-> IF pupil[i][j] # CZero THEN COne ELSE CZero]]

\* FFTPSF._get_normalization, lines 173-179; the pupils are
\* num_rays x num_rays (line 112)
_get_normalization(pupils, num_rays) ==
    FMul(FMax(Flatten(SquaredModulus(fftshift(fft2(P_nom(pupils[1], num_rays), num_rays),
                                              num_rays),
                                     num_rays),
                      num_rays)),
         F(Len(pupils)))

\* lines 123-126: the intensity of each padded pupil, N x N
PupilIntensities(padded, N) ==
    StoredFrom([k \in 1..Len(padded) |->
                   Stored2(SquaredModulus(fftshift(fft2(padded[k], N), N), N), N)],
               Len(padded))

\* line 128: np.real(np.sum(psf, axis=0)) / norm_factor * 100
NormalizedSum(intensities, norm_factor, N) ==
    [i \in 1..N |-> [j \in 1..N |->
        FMul(FDiv(FSum([k \in 1..Len(intensities) |-> intensities[k][i][j]]),
                  norm_factor),
             F(100))]]

\* the size of a num_rays x num_rays pupil after _pad_pupils
PaddedSize(num_rays, grid_size) == num_rays + (2 * PadWidth(grid_size, num_rays))

\* FFTPSF._compute_psf, lines 117-128; norm_factor is computed once, at
\* line 121
_compute_psf(pupils, num_rays, grid_size) ==
    IF _pad_pupils(pupils, grid_size).tag # "ok"
    THEN [tag |-> _pad_pupils(pupils, grid_size).tag]
    ELSE [tag |-> "ok",
          value |-> CHOOSE psf \in
              {NormalizedSum(PupilIntensities(_pad_pupils(pupils, grid_size).value,
                                              PaddedSize(num_rays, grid_size)),
                             norm_factor,
                             PaddedSize(num_rays, grid_size)) :
                  norm_factor \in {_get_normalization(pupils, num_rays)}} : TRUE]

\* num_rays and grid_size for which both transforms have a size in ExactSizes
ExactCase(nr, gs) ==
    /\ nr \in ExactSizes
    /\ PadWidth(gs, nr) >= 0 => PaddedSize(nr, gs) \in ExactSizes

\* the paraxial quantities of the optic: F-number, exit pupil distance,
\* entrance pupil diameter, magnification
Paraxials ==
    {[FNO |-> F(2), XPD |-> F(10), EPD |-> F(5), magnification |-> <<-1, 2>>]}

\* FFTPSF(optic, field, wavelength, num_rays, grid_size) is called and has
\* run through line 15: the wavefront data is there, grid_size is set
FFTPSFInit ==
    \E nr \in 1..MaxPupilRays, gs \in 1..MaxGridSize, seed \in 0..(NumWavefronts - 1),
       w \in 1..NumWavelengths, inf \in BOOLEAN, par \in Paraxials :
        /\ ExactCase(nr, gs)
        /\ optic = [wavelengths |-> Wavelengths, primary_index |-> 0,
                    fields |-> FieldCoords, surface_group |-> <<>>,
                    wavefront |-> seed, is_infinite |-> inf, paraxial |-> par]
        /\ self = [num_rays |-> nr, grid_size |-> gs, wavelengths |-> <<w>>]
        /\ heap = <<>>
        /\ pc = [at |-> "line16"]
        /\ trace_log = <<>>
        /\ result = NoResult

\* line 16: self.pupils = self._generate_pupils()
GeneratePupils ==
    /\ pc.at = "line16"
    /\ self' = [num_rays |-> self.num_rays, grid_size |-> self.grid_size,
                wavelengths |-> self.wavelengths,
                pupils |-> _generate_pupils(self.num_rays, optic.wavefront)]
    /\ pc' = [at |-> "line17"]
    /\ trace_log' = Append(trace_log, "_generate_pupils")
    /\ UNCHANGED <<optic, heap, result>>

\* line 17: self.psf = self._compute_psf(); the array is heap[1], self.psf
\* refers to it
ComputePSF ==
    /\ pc.at = "line17"
    /\ \E r \in {_compute_psf(self.pupils, self.num_rays, self.grid_size)} :
        IF r.tag = "ok"
        THEN /\ heap' = Append(heap, r.value)
             /\ self' = [num_rays |-> self.num_rays, grid_size |-> self.grid_size,
                         wavelengths |-> self.wavelengths, pupils |-> self.pupils,
                         psf |-> Len(heap) + 1]
             /\ pc' = [at |-> "ready"]
        ELSE /\ pc' = [at |-> r.tag]
             /\ UNCHANGED <<self, heap>>
    /\ trace_log' = Append(trace_log, "_compute_psf")
    /\ UNCHANGED <<optic, result>>

\* a < b; False if either is NaN
FLt(a, b) == FLe(a, b) /\ a # b

IMin(S) == CHOOSE m \in S : \A k \in S : m <= k
IMax(S) == CHOOSE m \in S : \A k \in S : k <= m

\* lines 143-144: np.argwhere(self.psf > threshold), indices from 0
AboveThreshold(psf, N, threshold) ==
    {rc \in (0..(N - 1)) \X (0..(N - 1)) : FLt(threshold, psf[rc[1] + 1][rc[2] + 1])}

\* lines 146-148: the larger extent of the bounding box of the indices
BoxSize(idx) ==
    IMax({IMax({rc[1] : rc \in idx}) - IMin({rc[1] : rc \in idx}),
          IMax({rc[2] : rc \in idx}) - IMin({rc[2] : rc \in idx})})

\* lines 152-162 on one axis: int(max(0, peak - size / 2)) and
\* int(min(shape, peak + size / 2)); both are nonnegative, so int() is the
\* floor, taken here of the doubled value halved
WindowMin(peak, size) == IMax({0, (2 * peak) - size}) \div 2
WindowMax(shape, peak, size) == IMin({2 * shape, (2 * peak) + size}) \div 2

\* lines 150-162: the window (min_x, min_y, max_x, max_y) around shape // 2
Window(N, size) ==
    <<WindowMin(N \div 2, size), WindowMin(N \div 2, size),
      WindowMax(N, N \div 2, size), WindowMax(N, N \div 2, size)>>

\* lines 146-162, given the index set of line 144; np.min of the empty index
\* array raises ValueError
BoundsOf(idx, N) ==
    IF idx = {}
    THEN [tag |-> "ValueError"]
    ELSE [tag |-> "ok", value |-> Window(N, BoxSize(idx))]

\* FFTPSF._find_bounds, lines 142-162, for an N x N psf
_find_bounds(psf, N, threshold) == BoundsOf(AboveThreshold(psf, N, threshold), N)

\* the threshold arguments tried: the default 0.25, 30, 60 and 100 percent,
\* and -1, which every finite sample exceeds
Thresholds == {F(-1), <<1, 4>>, F(30), F(60), F(100)}

\* the cached psf array and its size
Psf == heap[self.psf]
PsfSize == Len(heap[self.psf])

\* a call of _find_bounds(threshold)
FindBounds ==
    /\ pc.at = "ready"
    /\ \E threshold \in Thresholds :
        \E r \in {_find_bounds(Psf, PsfSize, threshold)} :
            result' = IF r.tag = "ok"
                      THEN [tag |-> "ok", op |-> "_find_bounds",
                            threshold |-> threshold, value |-> r.value]
                      ELSE [tag |-> r.tag, op |-> "_find_bounds", threshold |-> threshold]
    /\ UNCHANGED <<self, optic, heap, pc, trace_log>>

\* FFTPSF._get_psf_units, lines 181-199, for an image of shape
\* <<rows, cols>>; with a finite object line 191 reads the local FNO before
\* any assignment to it
_get_psf_units(shape) ==
    IF optic.is_infinite
    THEN [tag |-> "ok",
          value |-> <<FMul(F(shape[2]),
                           FDiv(FMul(F(self.wavelengths[1]), optic.paraxial.FNO),
                                FDiv(F(self.grid_size), F(self.num_rays)))),
                      FMul(F(shape[1]),
                           FDiv(FMul(F(self.wavelengths[1]), optic.paraxial.FNO),
                                FDiv(F(self.grid_size), F(self.num_rays))))>>]
    ELSE [tag |-> "UnboundLocalError"]

\* a call of _get_psf_units on an image of the shape of the psf
GetPsfUnits ==
    /\ pc.at = "ready"
    /\ \E r \in {_get_psf_units(<<PsfSize, PsfSize>>)} :
        result' = IF r.tag = "ok"
                  THEN [tag |-> "ok", op |-> "_get_psf_units",
                        shape |-> <<PsfSize, PsfSize>>, value |-> r.value]
                  ELSE [tag |-> r.tag, op |-> "_get_psf_units",
                        shape |-> <<PsfSize, PsfSize>>]
    /\ UNCHANGED <<self, optic, heap, pc, trace_log>>

\* An array object: the buffer it reads and writes (an index of heap), the
\* offset of its first entry in the buffer and its shape.  line 22: the basic
\* slice self.psf[min_x:max_x, min_y:max_y] shares the buffer of self.psf
Crop(window) ==
    [buf |-> self.psf, r0 |-> window[1], c0 |-> window[2],
     rows |-> window[3] - window[1], cols |-> window[4] - window[2]]

\* entry (i, j), counted from 1, of the array a in the buffers hp
Elem(hp, a, i, j) == hp[a.buf][a.r0 + i][a.c0 + j]

\* the num_points arguments tried: np.linspace(0, 1, n) then holds only 0 and 1
ViewPoints == {1, 2}

\* the sample of an axis of m samples that lies at np.linspace(0, 1, n)[a - 1]
NodeIndex(a, n, m) == IF n = 1 THEN 1 ELSE 1 + (((a - 1) * (m - 1)) \div (n - 1))

\* an _interpolate_psf that hands its argument back
_interpolate_psf_alias(hp, image, n) == [tag |-> "ok", heap |-> hp, value |-> image]

\* FFTPSF._interpolate_psf, lines 130-140: griddata returns a new n x n
\* array; on the samples' own positions the interpolant takes the samples'
\* values.  No point to triangulate is a ValueError, fewer than three a
\* QhullError.
_interpolate_psf(hp, image, n) ==
    IF image.rows * image.cols = 0 THEN [tag |-> "ValueError", heap |-> hp]
    ELSE IF image.rows < 2 \/ image.cols < 2 THEN [tag |-> "QhullError", heap |-> hp]
    ELSE [tag |-> "ok",
          heap |-> Append(hp, Stored2([a \in 1..n |-> [b \in 1..n |->
                      Elem(hp, image, NodeIndex(a, n, image.rows),
                           NodeIndex(b, n, image.cols))]], n)),
          value |-> [buf |-> Len(hp) + 1, r0 |-> 0, c0 |-> 0, rows |-> n, cols |-> n]]

\* FFTPSF._plot_2d, lines 32-51: draws, assigns nothing to image
_plot_2d(hp, image, log) ==
    [tag |-> _get_psf_units(<<image.rows, image.cols>>).tag, heap |-> hp]

\* image[image > 0], as a set of values
Positive(hp, image) ==
    {Elem(hp, image, i, j) : <<i, j>> \in {ij \in (1..image.rows) \X (1..image.cols) :
                                              FLt(Zero, Elem(hp, image, ij[1], ij[2]))}}

\* np.min of a nonempty set of values none of which is NaN
FMin(S) == CHOOSE m \in S : \A k \in S : FLe(m, k)

\* line 64: image[image <= 0] = floor, written through image into its buffer
Floored(hp, image, floor) ==
    [hp EXCEPT ![image.buf] =
        [r \in 1..Len(hp[image.buf]) |-> [c \in 1..Len(hp[image.buf][r]) |->
            IF /\ r - image.r0 \in 1..image.rows
               /\ c - image.c0 \in 1..image.cols
               /\ FLe(hp[image.buf][r][c], Zero)
            THEN floor
            ELSE hp[image.buf][r][c]]]]

\* FFTPSF._plot_3d, lines 53-86: np.min of no positive value is a ValueError;
\* np.log10 at line 68 makes a new array
_plot_3d(hp, image, log) ==
    IF _get_psf_units(<<image.rows, image.cols>>).tag # "ok"
    THEN [tag |-> _get_psf_units(<<image.rows, image.cols>>).tag, heap |-> hp]
    ELSE IF Positive(hp, image) = {}
    THEN [tag |-> "ValueError", heap |-> hp]
    ELSE [tag |-> "ok", heap |-> Floored(hp, image, FMin(Positive(hp, image)))]

Projections == {"2d", "3d", "1d"}

\* FFTPSF.view, lines 25-30, given the outcome of line 23
ViewSmooth(projection, log, smooth) ==
    IF smooth.tag # "ok" THEN smooth
    ELSE IF projection = "2d" THEN _plot_2d(smooth.heap, smooth.value, log)
    ELSE IF projection = "3d" THEN _plot_3d(smooth.heap, smooth.value, log)
    ELSE [tag |-> "ValueError", heap |-> smooth.heap]

\* FFTPSF.view, lines 22-30, given the outcome of line 21
ViewBounds(hp, projection, log, num_points, bounds) ==
    IF bounds.tag # "ok" THEN [tag |-> bounds.tag, heap |-> hp]
    ELSE ViewSmooth(projection, log, _interpolate_psf(hp, Crop(bounds.value), num_points))

\* FFTPSF.view, lines 19-30
view(hp, projection, log, threshold, num_points) ==
    ViewBounds(hp, projection, log, num_points,
               _find_bounds(hp[self.psf], Len(hp[self.psf]), threshold))

\* a call of view(); the arrays made during the call are dropped at its end
View ==
    /\ pc.at = "ready"
    /\ \E threshold \in Thresholds, num_points \in ViewPoints :
        \E log \in BOOLEAN, projection \in Projections :
            \E r \in {view(heap, projection, log, threshold, num_points)} :
                /\ heap' = SubSeq(r.heap, 1, Len(heap))
                /\ result' = [tag |-> r.tag, op |-> "view",
                              projection |-> projection, threshold |-> threshold]
    /\ UNCHANGED <<self, optic, pc, trace_log>>

FFTPSFNext ==
    \/ GeneratePupils
    \/ ComputePSF
    \/ FindBounds
    \/ GetPsfUnits
    \/ View

SpecFFTPSF == FFTPSFInit /\ [][FFTPSFNext]_vars

\* C11: whenever some sample exceeds the threshold, the window
\* (min_x, min_y, max_x, max_y) of _find_bounds, used as the crop
\* psf[min_x:max_x, min_y:max_y], is square, centred on the grid midpoint
\* (up to the rounding of int()), lies within 0 <= min <= max <= grid size on
\* both axes, and contains every sample that exceeds the threshold.
C11_WindowContainsSignal ==
    (pc.at = "ready" /\ result.tag = "ok" /\ result.op = "_find_bounds") =>
        /\ result.value[3] - result.value[1] = result.value[4] - result.value[2]
        /\ (result.value[1] + result.value[3]) - (2 * (PsfSize \div 2)) \in {-1, 0, 1}
        /\ (result.value[2] + result.value[4]) - (2 * (PsfSize \div 2)) \in {-1, 0, 1}
        /\ 0 <= result.value[1] /\ result.value[1] <= result.value[3]
        /\ result.value[3] <= PsfSize
        /\ 0 <= result.value[2] /\ result.value[2] <= result.value[4]
        /\ result.value[4] <= PsfSize
        /\ \A rc \in AboveThreshold(Psf, PsfSize, result.threshold) :
            /\ result.value[1] <= rc[1] /\ rc[1] < result.value[3]
            /\ result.value[2] <= rc[2] /\ rc[2] < result.value[4]

\* C12: when no sample of the psf exceeds the threshold, a call of
\* _find_bounds or of view ends in the explicit error EmptyResult /
\* NoSignalAboveThreshold and returns no window, and the cached psf and the
\* instance are as before the call.
C12_NoSignalIsAnError ==
    [][(/\ pc.at = "ready"
        /\ result'.op \in {"_find_bounds", "view"}
        /\ AboveThreshold(Psf, PsfSize, result'.threshold) = {})
       => (/\ result'.tag \in {"EmptyResult", "NoSignalAboveThreshold"}
           /\ heap' = heap
           /\ self' = self)]_vars

\* what the calls do without a sample above the threshold: np.min of the
\* empty index array raises ValueError before a window is formed, and the
\* cached psf and the instance stay as they were
C12_NoSignalRaisesValueError ==
    [][(/\ pc.at = "ready"
        /\ result'.op \in {"_find_bounds", "view"}
        /\ AboveThreshold(Psf, PsfSize, result'.threshold) = {})
       => (/\ result'.tag = "ValueError"
           /\ heap' = heap
           /\ self' = self)]_vars

\* C13: an FFTPSF instance goes Construct -> GeneratePupils -> ComputePSF ->
\* View*: _generate_pupils runs before _compute_psf, _compute_psf runs once,
\* during construction, the instance has pupils from line 16 and a psf from
\* line 17 on, and every call made on the constructed instance, view() with
\* any arguments and any outcome included, leaves the instance where it is,
\* runs neither again and leaves the psf and pupils arrays as they were.
C13_Lifecycle ==
    /\ [](/\ trace_log \in {<<>>, <<"_generate_pupils">>,
                            <<"_generate_pupils", "_compute_psf">>}
          /\ pc.at = "line16" => (trace_log = <<>> /\ DOMAIN self \cap {"pupils", "psf"} = {})
          /\ pc.at = "line17" => (/\ trace_log = <<"_generate_pupils">>
                                  /\ DOMAIN self \cap {"pupils", "psf"} = {"pupils"})
          /\ pc.at = "ready" => (/\ trace_log = <<"_generate_pupils", "_compute_psf">>
                                 /\ {"pupils", "psf"} \subseteq DOMAIN self))
    /\ [][pc.at = "ready" => (/\ pc'.at = "ready"
                              /\ trace_log' = trace_log
                              /\ self'.pupils = self.pupils
                              /\ self'.psf = self.psf
                              /\ heap'[self'.psf] = heap[self.psf])]_vars

\* a 3d view has run to its end on a crop that holds a zero, which line 64
\* overwrote in the interpolated image, and the psf still holds the zero
C13_Witness ==
    /\ pc.at = "ready"
    /\ result.tag = "ok"
    /\ result.op = "view"
    /\ result.projection = "3d"
    /\ result.threshold = F(-1)
    /\ Psf[1][1] = Zero
    /\ Psf[(PsfSize \div 2) + 1][(PsfSize \div 2) + 1] = F(100)

\* the F-number of the statement: the paraxial F-number for an infinite
\* object, times 1 + |magnification| / (XPD / EPD) for a finite one
WorkingFNumber ==
    IF optic.is_infinite THEN optic.paraxial.FNO
    ELSE FMul(optic.paraxial.FNO,
              FAdd(F(1), FDiv(IF optic.paraxial.magnification[1] < 0
                              THEN FNeg(optic.paraxial.magnification)
                              ELSE optic.paraxial.magnification,
                              FDiv(optic.paraxial.XPD, optic.paraxial.EPD))))

\* the sample spacing of the statement: wavelength * F / (grid_size / num_rays)
SampleSpacing ==
    FDiv(FMul(F(self.wavelengths[1]), WorkingFNumber),
         FDiv(F(self.grid_size), F(self.num_rays)))

\* C14: for an infinite and for a finite object alike, _get_psf_units does
\* not fail and returns (image.shape[1] * dx, image.shape[0] * dx), dx being
\* wavelength * F / (grid_size / num_rays) with the working F-number F.
C14_UnitsForEveryObject ==
    (pc.at = "ready" /\ result.tag # "none" /\ result.op = "_get_psf_units") =>
        /\ result.tag = "ok"
        /\ result.value = <<FMul(F(result.shape[2]), SampleSpacing),
                            FMul(F(result.shape[1]), SampleSpacing)>>

\* with an object at infinity the pair is the one of the statement
C14_InfiniteObjectUnits ==
    (pc.at = "ready" /\ result.tag # "none" /\ result.op = "_get_psf_units"
                     /\ optic.is_infinite) =>
        /\ result.tag = "ok"
        /\ result.value = <<FMul(F(result.shape[2]), SampleSpacing),
                            FMul(F(result.shape[1]), SampleSpacing)>>

\* entries 2k and 2k+1 (counted from 0) of the arrays a form a ray pair in
\* the pupil coordinate P: same field height Hy, pupil offsets -Delta, +Delta
RayPairs(a, P, n) ==
    \A k \in 1..n :
        /\ a.Hy[(2 * k) - 1] = a.Hy[2 * k]
        /\ P[(2 * k) - 1] = FNeg(Delta)
        /\ P[2 * k] = Delta

\* C15: for every num_points >= 1, the arrays Hx, Hy, Px, Py that the
\* tangential and the sagittal solver pass to trace_generic all have length
\* 2 * num_points, and consecutive entries form a ray pair with pupil offsets
\* -delta and +delta, in Py for the tangential and in Px for the sagittal
\* solver.
C15_PairedArraysOfTwiceNumPoints ==
    \A e \in 1..Len(trace_log) :
        /\ trace_log[e][3] = <<2 * self.num_points, 2 * self.num_points,
                               2 * self.num_points, 2 * self.num_points>>
        /\ trace_log[e][1] = "tangential" =>
              RayPairs(TangentialArgs(self.num_points),
                       TangentialArgs(self.num_points).Py, self.num_points)
        /\ trace_log[e][1] = "sagittal" =>
              RayPairs(SagittalArgs(self.num_points),
                       SagittalArgs(self.num_points).Px, self.num_points)

\* the point of the first ray (through (p01, z01), direction (A1, N1)) that
\* lies offset further along z than (p01, z01) is on the line through
\* (p02, z02) with direction (A2, N2)
OnSecondRay(p01, z01, A1, N1, offset, p02, z02, A2, N2) ==
    FSub(FMul(FSub(FAdd(p01, FMul(FDiv(offset, N1), A1)), p02), N2),
         FMul(FSub(FAdd(z01, offset), z02), A2)) = Zero

\* C16: for every ray pair with nonzero determinant, the offset of the
\* tangential solver is z_int - z01 for the one point (y_int, z_int) where the
\* line through (y01, z01) with direction (M1, N1) meets the line through
\* (y02, z02) with direction (M2, N2): the point of the first ray at
\* z01 + offset lies on the second ray's line.  The sagittal solver does the
\* same with x and L for y and M.
C16_OffsetReachesIntersection ==
    pc.at = "solved" =>
        \A k \in 1..NumPairs :
            /\ Determinant(optic.traced[(2 * k) - 1].M, optic.traced[(2 * k) - 1].N,
                           optic.traced[2 * k].M, optic.traced[2 * k].N) # Zero
               => OnSecondRay(optic.traced[(2 * k) - 1].y, optic.traced[(2 * k) - 1].z,
                              optic.traced[(2 * k) - 1].M, optic.traced[(2 * k) - 1].N,
                              result.tangential[k],
                              optic.traced[2 * k].y, optic.traced[2 * k].z,
                              optic.traced[2 * k].M, optic.traced[2 * k].N)
            /\ Determinant(optic.traced[(2 * k) - 1].L, optic.traced[(2 * k) - 1].N,
                           optic.traced[2 * k].L, optic.traced[2 * k].N) # Zero
               => OnSecondRay(optic.traced[(2 * k) - 1].x, optic.traced[(2 * k) - 1].z,
                              optic.traced[(2 * k) - 1].L, optic.traced[(2 * k) - 1].N,
                              result.sagittal[k],
                              optic.traced[2 * k].x, optic.traced[2 * k].z,
                              optic.traced[2 * k].L, optic.traced[2 * k].N)

\* a pair of rays that start at different z and cross off the image surface
\* in both planes has been solved
C16_Witness ==
    /\ pc.at = "solved"
    /\ optic.traced[1].z # optic.traced[2].z
    /\ Determinant(optic.traced[1].M, optic.traced[1].N,
                   optic.traced[2].M, optic.traced[2].N) # Zero
    /\ Determinant(optic.traced[1].L, optic.traced[1].N,
                   optic.traced[2].L, optic.traced[2].N) # Zero
    /\ IsFinite(result.tangential[1]) /\ result.tangential[1] # Zero
    /\ IsFinite(result.sagittal[1]) /\ result.sagittal[1] # Zero

====
